---- MODULE Spec2Model ----
(***************************************************************************)
(* Beaver triples protocol of syft.core.smpc.protocol.beaver: the          *)
(* primitive store (mul_store_add / mul_store_get and the matmul twins)    *)
(* and the per-party reshape of _get_triples.                              *)
(*                                                                         *)
(* A CryptoStore is a Python dict from a formatted key string to a list    *)
(* OBJECT.  Python lists are references, so the model keeps a heap `lists` *)
(* (object id -> contents) and `store` maps a key to an object id.         *)
(*                                                                         *)
(* Also modelled: the failures of a generation call, the registry the      *)
(* decorators of beaver.py fill, and the ids of syft.lib.python Floats as  *)
(* tests/syft/lib/python/float/id_test.py exercises them.                  *)
(***************************************************************************)
EXTENDS Integers, Sequences, FiniteSets, TLC

VARIABLES
    store,              \* the CryptoStore dict: key string -> list object id
    lists,              \* heap of Python list objects: id -> sequence of primitives
    nextId,             \* next fresh primitive (triple) identity
    nAdds,              \* number of store_add calls made so far
    arrived,            \* history: key -> primitives appended under it, in call order
    served,             \* history: key -> primitives returned by removing gets
    last,               \* history: the last completed call and its outcome
    pc,                 \* per thread: position inside the running call
    frame,              \* per thread: the locals of the running call
    store0,             \* history: queue contents per key when the threads started
    triple_sequential,  \* _get_triples: one (a_shares, b_shares, c_shares) per instance
    triple,             \* _get_triples: the value returned (one bundle per party)
    gen,                \* _get_triples: the inputs and position of the call
    registry,           \* capability -> operation name -> registered function
    regLog,             \* history: the registrations made so far, in call order
    floats,             \* the objects of the Float tests, in order of creation
    nextUid,            \* the next UID an object is created with
    fcall,              \* history: the last operation called on a Float
    ast,                \* get_parent: the arguments and the outcome of the call
    party               \* the parties of one computation: their stores and what they took

vars == <<store, lists, nextId, nAdds, arrived, served, last, pc, frame, store0,
          triple_sequential, triple, gen, registry, regLog, floats, nextUid, fcall,
          ast, party>>

storeVars == <<store, lists, nextId, nAdds, arrived, served, last>>
threadVars == <<pc, frame, store0>>
genVars == <<triple_sequential, triple, gen>>
regVars == <<registry, regLog>>
floatVars == <<floats, nextUid, fcall>>
astVars == <<ast>>
partyVars == <<party>>

-----------------------------------------------------------------------------
(* Bounds *)

MaxAdds == 2        \* store_add calls in one run of the sequential store
MaxPrimitives == 3  \* primitives the callers receive in one run, over all bundles
MaxQueue == 2       \* primitives queued under a key when the threads start
RingBits == 2       \* bit-width of the ring the generator works in
MaxSeed == 1        \* seeds are drawn from 0..MaxSeed
MaxParties == 3     \* nr_parties is at most MaxParties
MaxInstances == 2   \* instances in the triple_sequential handed to the reshape
MaxOperand == 1     \* operands of those instances are drawn from 0..MaxOperand
MaxRegistrations == 3   \* registrations made in one run of the registry
MaxFloats == 4      \* objects in one run of the Float operations, the two operands included
MaxPath == 3        \* components of the dotted path given to get_parent

-----------------------------------------------------------------------------
(* The operation registry.  The decorators register_primitive_generator,      *)
(* register_primitive_store_add and register_primitive_store_get put the      *)
(* decorated function under an operation name; importing the module runs the  *)
(* six decorators of lines 128, 145, 167, 211, 228 and 251 in that order.     *)

Capabilities == {"generator", "store_add", "store_get"}

EmptyRegistry == [c \in Capabilities |-> <<>>]

\* Mutant: a registration forgets the names registered before it.
register_forgetting(reg, capability, name, fn) ==
    [reg EXCEPT ![capability] = name :> fn]

\* register_primitive_<capability>(name)(fn): fn becomes the function of
\* `name`, the other names and the other capabilities keep theirs.
register(reg, capability, name, fn) ==
    [reg EXCEPT ![capability] = (name :> fn) @@ @]

Registration(capability, name, fn) ==
    [capability |-> capability, name |-> name, fn |-> fn]

\* The registry after the registrations of log were made in order.
RECURSIVE Replay(_)
Replay(log) ==
    IF log = <<>> THEN EmptyRegistry
    ELSE LET e == log[Len(log)]
         IN  register(Replay(SubSeq(log, 1, Len(log) - 1)), e.capability, e.name, e.fn)

\* The decorators of beaver.py, in the order of the file.
ModuleRegistrations ==
    << Registration("generator", "beaver_mul", "get_triples_mul"),
       Registration("store_add", "beaver_mul", "mul_store_add"),
       Registration("store_get", "beaver_mul", "mul_store_get"),
       Registration("generator", "beaver_matmul", "get_triples_matmul"),
       Registration("store_add", "beaver_matmul", "matmul_store_add"),
       Registration("store_get", "beaver_matmul", "matmul_store_get") >>

ModuleRegistry == Replay(ModuleRegistrations)

\* The state of the registry once beaver.py has been imported.
RegistryLoaded ==
    /\ registry = ModuleRegistry
    /\ regLog = ModuleRegistrations

-----------------------------------------------------------------------------
(* The ids of syft.lib.python Float objects, as tests/syft/lib/python/float/  *)
(* id_test.py exercises them.  An object is its type, its id, and where it    *)
(* came from: the operand it was computed from (`from`, 0 when constructed),  *)
(* the kind of operation, and for one of two results the other (`sibling`).   *)
(* A Float is used as a Python float (the tests pass one to float.__add__),   *)
(* so it is immutable and every operation builds the object it returns.       *)

\* Operations whose Python result is a float
FloatResultOps ==
    {"__abs__", "__add__", "__floordiv__", "__mod__", "__mul__", "__neg__", "__pow__",
     "__radd__", "__rfloordiv__", "__rmod__", "__rmul__", "__rpow__", "__rsub__",
     "__rtruediv__", "__sub__", "__truediv__", "conjugate", "imag", "real"}

\* Operations whose Python result is a bool, an int or a str
OtherResultOps ==
    {"__bool__", "__eq__", "__ge__", "__gt__", "__le__", "__lt__", "__ne__",
     "__round__", "__trunc__", "hex", "is_integer"}

\* Operations with two results: two floats, or two ints
FloatPairOps == {"__divmod__", "__rdivmod__"}
OtherPairOps == {"as_integer_ratio"}

InPlaceOps ==
    {"__iadd__", "__ifloordiv__", "__imod__", "__imul__", "__ipow__", "__isub__",
     "__itruediv__"}

\* No id: `assert res.id` fails on it.
NoUid == 0

result_type(op) ==
    IF op \in FloatResultOps \cup FloatPairOps \cup InPlaceOps THEN "Float" ELSE "other"

\* Float(42.5): a new object with a new id
Constructed(uid) ==
    [type |-> "Float", id |-> uid, from |-> 0, kind |-> "constructed", sibling |-> 0]

\* Mutant: the result is given the id of the operand.
float_op_keeping_id(objs, uid, op, self) ==
    Append(objs, [type |-> result_type(op), id |-> objs[self].id, from |-> self,
                  kind |-> "result", sibling |-> 0])

\* res = test_float.<op>(...) for an operation with one result: a new object
\* with a new id
float_op(objs, uid, op, self) ==
    Append(objs, [type |-> result_type(op), id |-> uid, from |-> self,
                  kind |-> "result", sibling |-> 0])

\* r1, q1 = test_float.<op>(...): two new objects, each with a new id
float_pair_op(objs, uid, op, self) ==
    objs \o << [type |-> result_type(op), id |-> uid, from |-> self,
                kind |-> "pair", sibling |-> Len(objs) + 2],
               [type |-> result_type(op), id |-> uid + 1, from |-> self,
                kind |-> "pair", sibling |-> Len(objs) + 1] >>

\* Mutant: the result of an in-place operator is given a new id.
float_inplace_op_fresh_id(objs, uid, op, self) ==
    Append(objs, [type |-> "Float", id |-> uid, from |-> self,
                  kind |-> "inplace", sibling |-> 0])

\* res = test_float.__i<op>__(other): a Float with the id of test_float
float_inplace_op(objs, uid, op, self) ==
    Append(objs, [type |-> "Float", id |-> objs[self].id, from |-> self,
                  kind |-> "inplace", sibling |-> 0])

NoFloatCall == [op |-> "", self |-> 0, other |-> 0]

\* No Float exists: the state of the programs that do not use them.
NoFloats ==
    /\ floats = <<>>
    /\ nextUid = 1
    /\ fcall = NoFloatCall

\* get_parent has not been called.
AstIdle == ast = <<>>

\* No computation between parties is under way.
PartiesIdle == party = <<>>

-----------------------------------------------------------------------------
(* Shapes and keys *)

\* A shape argument is a Python container of ints: a tuple or a list.
tuple_(dims) == [kind |-> "tuple", dims |-> dims]
list_(dims) == [kind |-> "list", dims |-> dims]

\* tuple(shape): the tuple with the same elements
tuple(shape) == [kind |-> "tuple", dims |-> shape.dims]

RECURSIVE join(_)
join(dims) ==
    IF Len(dims) = 0 THEN ""
    ELSE IF Len(dims) = 1 THEN ToString(dims[1])
    ELSE ToString(dims[1]) \o ", " \o join(Tail(dims))

\* str(shape) as an f-string formats it: "(1,)", "(2, 3)", "[1]", "[2, 3]"
format(shape) ==
    IF shape.kind = "tuple"
    THEN "(" \o join(shape.dims) \o (IF Len(shape.dims) = 1 THEN "," ELSE "") \o ")"
    ELSE "[" \o join(shape.dims) \o "]"

\* The (a_shape, b_shape) arguments the callers use.
ShapeArgs ==
    { <<tuple_(<<1>>), tuple_(<<1>>)>>,
      <<list_(<<1>>), tuple_(<<2, 3>>)>> }

mul_store_add_key(a_shape, b_shape) ==
    "beaver_mul_" \o format(a_shape) \o "_" \o format(b_shape)

mul_store_get_key(a_shape, b_shape) ==
    "beaver_mul_" \o format(tuple(a_shape)) \o "_" \o format(tuple(b_shape))

matmul_store_add_key(a_shape, b_shape) ==
    "beaver_matmul_" \o format(a_shape) \o "_" \o format(b_shape)

matmul_store_get_key(a_shape, b_shape) ==
    "beaver_matmul_" \o format(tuple(a_shape)) \o "_" \o format(tuple(b_shape))

AddKeys ==
    { mul_store_add_key(s[1], s[2]) : s \in ShapeArgs }
      \cup { matmul_store_add_key(s[1], s[2]) : s \in ShapeArgs }

GetKeys ==
    { mul_store_get_key(s[1], s[2]) : s \in ShapeArgs }
      \cup { matmul_store_get_key(s[1], s[2]) : s \in ShapeArgs }

Keys == AddKeys \cup GetKeys

-----------------------------------------------------------------------------
(* The store functions, as functions of the dict and the heap *)

NoValue == 0

Returned(st, hp, v) == [store |-> st, lists |-> hp, exc |-> "none", val |-> v]
Raised(st, hp, e) == [store |-> st, lists |-> hp, exc |-> e, val |-> NoValue]

\* Mutant: the bundle is put in front of the queue instead of behind it.
list_extend_front(hp, target, primitives) ==
    [hp EXCEPT ![target] = hp[primitives] \o @]

\* target.extend(primitives): the contents of the caller's list are appended
\* to the target list object, in their order
list_extend(hp, target, primitives) ==
    [hp EXCEPT ![target] = @ \o hp[primitives]]

\* Mutant: the last entry is deleted instead of the first.
list_del_last(hp, primitives) ==
    [hp EXCEPT ![primitives] = SubSeq(@, 1, Len(@) - 1)]

\* del primitives[0]
list_del_head(hp, primitives) ==
    [hp EXCEPT ![primitives] = Tail(@)]

\* if config_key in store: store[config_key].extend(primitives)
\* else: store[config_key] = primitives
\* `primitives` is the id of the caller's list object: the else branch puts
\* that very object in the dict.
mul_store_add(st, hp, primitives, a_shape, b_shape) ==
    LET config_key == mul_store_add_key(a_shape, b_shape)
    IN  IF config_key \in DOMAIN st
        THEN Returned(st, list_extend(hp, st[config_key], primitives), NoValue)
        ELSE Returned(st @@ (config_key :> primitives), hp, NoValue)

\* Mutant: the caller's list replaces the queue of a key that is present.
matmul_store_add_replacing(st, hp, primitives, a_shape, b_shape) ==
    LET config_key == matmul_store_add_key(a_shape, b_shape)
    IN  Returned([k \in DOMAIN st \cup {config_key} |->
                     IF k = config_key THEN primitives ELSE st[k]], hp, NoValue)

matmul_store_add(st, hp, primitives, a_shape, b_shape) ==
    LET config_key == matmul_store_add_key(a_shape, b_shape)
    IN  IF config_key \in DOMAIN st
        THEN Returned(st, list_extend(hp, st[config_key], primitives), NoValue)
        ELSE Returned(st @@ (config_key :> primitives), hp, NoValue)

\* Mutant: a missing key is created with an empty list before the error
\* is raised (a defaultdict-style lookup).
mul_store_get_creating(st, hp, a_shape, b_shape, remove) ==
    LET config_key == mul_store_get_key(a_shape, b_shape)
    IN  IF config_key \notin DOMAIN st
        THEN Raised(st @@ (config_key :> (Len(hp) + 1)), Append(hp, <<>>),
                    "EmptyPrimitiveStore")
        ELSE LET primitives == st[config_key]
             IN  IF Len(hp[primitives]) = 0
                 THEN Raised(st, hp, "EmptyPrimitiveStore")
                 ELSE LET primitive == hp[primitives][1]
                      IN  IF remove
                          THEN Returned(st, list_del_head(hp, primitives), primitive)
                          ELSE Returned(st, hp, primitive)

\* Mutant: the get works at the back of the queue.
mul_store_get_from_back(st, hp, a_shape, b_shape, remove) ==
    LET config_key == mul_store_get_key(a_shape, b_shape)
    IN  IF config_key \notin DOMAIN st
        THEN Raised(st, hp, "EmptyPrimitiveStore")
        ELSE LET primitives == st[config_key]
             IN  IF Len(hp[primitives]) = 0
                 THEN Raised(st, hp, "EmptyPrimitiveStore")
                 ELSE LET primitive == hp[primitives][Len(hp[primitives])]
                      IN  IF remove
                          THEN Returned(st, list_del_last(hp, primitives), primitive)
                          ELSE Returned(st, hp, primitive)

mul_store_get(st, hp, a_shape, b_shape, remove) ==
    LET config_key == mul_store_get_key(a_shape, b_shape)
    IN  IF config_key \notin DOMAIN st
        THEN Raised(st, hp, "EmptyPrimitiveStore")
        ELSE LET primitives == st[config_key]
             IN  IF Len(hp[primitives]) = 0
                 THEN Raised(st, hp, "EmptyPrimitiveStore")
                 ELSE LET primitive == hp[primitives][1]
                      IN  IF remove
                          THEN Returned(st, list_del_head(hp, primitives), primitive)
                          ELSE Returned(st, hp, primitive)

\* Mutant: the head is removed whatever `remove` is.
matmul_store_get_always_removing(st, hp, a_shape, b_shape, remove) ==
    LET config_key == matmul_store_get_key(a_shape, b_shape)
    IN  IF config_key \notin DOMAIN st
        THEN Raised(st, hp, "EmptyPrimitiveStore")
        ELSE LET primitives == st[config_key]
             IN  IF Len(hp[primitives]) = 0
                 THEN Raised(st, hp, "EmptyPrimitiveStore")
                 ELSE Returned(st, list_del_head(hp, primitives), hp[primitives][1])

matmul_store_get(st, hp, a_shape, b_shape, remove) ==
    LET config_key == matmul_store_get_key(a_shape, b_shape)
    IN  IF config_key \notin DOMAIN st
        THEN Raised(st, hp, "EmptyPrimitiveStore")
        ELSE LET primitives == st[config_key]
             IN  IF Len(hp[primitives]) = 0
                 THEN Raised(st, hp, "EmptyPrimitiveStore")
                 ELSE LET primitive == hp[primitives][1]
                      IN  IF remove
                          THEN Returned(st, list_del_head(hp, primitives), primitive)
                          ELSE Returned(st, hp, primitive)

\* The queue a key currently names (empty when the key is absent).
Queue(k) == IF k \in DOMAIN store THEN lists[store[k]] ELSE <<>>

-----------------------------------------------------------------------------
(* The store used by one caller at a time: every call runs to completion *)

EmptyLog == [k \in Keys |-> <<>>]
NoCall == [fn |-> "none", key |-> "", remove |-> FALSE, exc |-> "none", val |-> NoValue]

\* A bundle of n primitives nobody has seen before.
FreshBundle(n) == [i \in 1..n |-> nextId + i - 1]

StoreInit ==
    /\ store = <<>>
    /\ lists = <<>>
    /\ nextId = 1
    /\ nAdds = 0
    /\ arrived = EmptyLog
    /\ served = EmptyLog
    /\ last = NoCall

ThreadsIdle ==
    /\ pc = <<>>
    /\ frame = <<>>
    /\ store0 = <<>>

GenIdle ==
    /\ triple_sequential = <<>>
    /\ triple = <<>>
    /\ gen = <<>>

\* The caller passes either a list it has just received (p = 0: a new object
\* holding n new primitives) or a list object it passed before (p > 0).  The
\* shapes of the call are drawn from `shapes`; a run makes maxAdds calls at most.
MulStoreAddCall(shapes, maxAdds) ==
    /\ nAdds < maxAdds
    /\ \E s \in shapes, n \in 0..(MaxPrimitives + 1 - nextId), p \in 0..Len(lists) :
          /\ (p = 0) = (n > 0)
          /\ LET hp == IF p = 0 THEN Append(lists, FreshBundle(n)) ELSE lists
                 primitives == IF p = 0 THEN Len(lists) + 1 ELSE p
                 key == mul_store_add_key(s[1], s[2])
                 r == mul_store_add(store, hp, primitives, s[1], s[2])
             IN  /\ store' = r.store
                 /\ lists' = r.lists
                 /\ nextId' = nextId + n
                 /\ arrived' = [arrived EXCEPT ![key] = @ \o hp[primitives]]
                 /\ last' = [fn |-> "add", key |-> key, remove |-> FALSE,
                             exc |-> r.exc, val |-> r.val]
    /\ nAdds' = nAdds + 1
    /\ UNCHANGED <<served, threadVars, genVars, regVars, floatVars, astVars, partyVars>>

MatmulStoreAddCall(shapes, maxAdds) ==
    /\ nAdds < maxAdds
    /\ \E s \in shapes, n \in 0..(MaxPrimitives + 1 - nextId), p \in 0..Len(lists) :
          /\ (p = 0) = (n > 0)
          /\ LET hp == IF p = 0 THEN Append(lists, FreshBundle(n)) ELSE lists
                 primitives == IF p = 0 THEN Len(lists) + 1 ELSE p
                 key == matmul_store_add_key(s[1], s[2])
                 r == matmul_store_add(store, hp, primitives, s[1], s[2])
             IN  /\ store' = r.store
                 /\ lists' = r.lists
                 /\ nextId' = nextId + n
                 /\ arrived' = [arrived EXCEPT ![key] = @ \o hp[primitives]]
                 /\ last' = [fn |-> "add", key |-> key, remove |-> FALSE,
                             exc |-> r.exc, val |-> r.val]
    /\ nAdds' = nAdds + 1
    /\ UNCHANGED <<served, threadVars, genVars, regVars, floatVars, astVars, partyVars>>

MulStoreGetCall(shapes) ==
    /\ \E s \in shapes, remove \in BOOLEAN :
          LET key == mul_store_get_key(s[1], s[2])
              r == mul_store_get(store, lists, s[1], s[2], remove)
          IN  /\ store' = r.store
              /\ lists' = r.lists
              /\ served' = IF remove /\ r.exc = "none"
                           THEN [served EXCEPT ![key] = Append(@, r.val)]
                           ELSE served
              /\ last' = [fn |-> "get", key |-> key, remove |-> remove,
                          exc |-> r.exc, val |-> r.val]
    /\ UNCHANGED <<nextId, nAdds, arrived, threadVars, genVars, regVars, floatVars, astVars, partyVars>>

MatmulStoreGetCall(shapes) ==
    /\ \E s \in shapes, remove \in BOOLEAN :
          LET key == matmul_store_get_key(s[1], s[2])
              r == matmul_store_get(store, lists, s[1], s[2], remove)
          IN  /\ store' = r.store
              /\ lists' = r.lists
              /\ served' = IF remove /\ r.exc = "none"
                           THEN [served EXCEPT ![key] = Append(@, r.val)]
                           ELSE served
              /\ last' = [fn |-> "get", key |-> key, remove |-> remove,
                          exc |-> r.exc, val |-> r.val]
    /\ UNCHANGED <<nextId, nAdds, arrived, threadVars, genVars, regVars, floatVars, astVars, partyVars>>

CallMulStoreAdd == MulStoreAddCall(ShapeArgs, MaxAdds)
CallMatmulStoreAdd == MatmulStoreAddCall(ShapeArgs, MaxAdds)
CallMulStoreGet == MulStoreGetCall(ShapeArgs)
CallMatmulStoreGet == MatmulStoreGetCall(ShapeArgs)

Init == StoreInit /\ ThreadsIdle /\ GenIdle /\ RegistryLoaded /\ NoFloats /\ AstIdle /\ PartiesIdle

Next ==
    \/ CallMulStoreAdd
    \/ CallMatmulStoreAdd
    \/ CallMulStoreGet
    \/ CallMatmulStoreGet

Spec == Init /\ [][Next]_vars

\* The same store and the same calls, all made with shapes (1,) and (1,), so
\* that a run has room for more store_add calls.
SameShapeAdds == MaxAdds + 1

SameShapeArgs == { <<tuple_(<<1>>), tuple_(<<1>>)>> }

SameShapeMulStoreAdd == MulStoreAddCall(SameShapeArgs, SameShapeAdds)
SameShapeMatmulStoreAdd == MatmulStoreAddCall(SameShapeArgs, SameShapeAdds)
SameShapeMulStoreGet == MulStoreGetCall(SameShapeArgs)
SameShapeMatmulStoreGet == MatmulStoreGetCall(SameShapeArgs)

SameShapeNext ==
    \/ SameShapeMulStoreAdd
    \/ SameShapeMatmulStoreAdd
    \/ SameShapeMulStoreGet
    \/ SameShapeMatmulStoreGet

SameShapeSpec == Init /\ [][SameShapeNext]_vars

-----------------------------------------------------------------------------
(* The store shared by two threads of one process.  CPython runs one          *)
(* bytecode at a time: a dict lookup, a dict store, list.extend of a list and *)
(* del list[0] are each one step, and the threads switch between steps.       *)

Threads == {"t1", "t2"}

MulKey11 == mul_store_get_key(tuple_(<<1>>), tuple_(<<1>>))
MatmulKey11 == matmul_store_get_key(tuple_(<<1>>), tuple_(<<1>>))

NoFrame ==
    [fn |-> "none", key |-> "", remove |-> FALSE, primitives |-> 0, target |-> 0,
     primitive |-> NoValue, bundle |-> <<>>, exc |-> "none", val |-> NoValue,
     raced |-> FALSE]

\* History: another thread is inside a call when thread t makes its call.
Racing(t) == \E u \in Threads \ {t} : pc[u] \notin {"start", "done"}

Max(a, b) == IF a > b THEN a ELSE b

\* Each of the two keys is absent (-1) or names its own list of q primitives.
ConcInit ==
    /\ \E qm \in -1..MaxQueue, qt \in -1..MaxQueue :
          /\ lists = (IF qm >= 0 THEN <<[i \in 1..qm |-> i]>> ELSE <<>>)
                     \o (IF qt >= 0 THEN <<[i \in 1..qt |-> Max(qm, 0) + i]>> ELSE <<>>)
          /\ store = (IF qm >= 0 THEN MulKey11 :> 1 ELSE <<>>)
                     @@ (IF qt >= 0 THEN MatmulKey11 :> (IF qm >= 0 THEN 2 ELSE 1) ELSE <<>>)
          /\ nextId = Max(qm, 0) + Max(qt, 0) + 1
    /\ store0 = [k \in Keys |-> Queue(k)]
    /\ pc = [t \in Threads |-> "start"]
    /\ frame = [t \in Threads |-> NoFrame]
    /\ nAdds = 0
    /\ arrived = EmptyLog
    /\ served = EmptyLog
    /\ last = NoCall
    /\ GenIdle
    /\ RegistryLoaded
    /\ NoFloats
    /\ AstIdle
    /\ PartiesIdle

\* A thread calls mul_store_add or matmul_store_add with a list it has just
\* received; line 160 / 244 formats the key.
ThreadCallsAdd(t) ==
    /\ pc[t] = "start"
    /\ \E fn \in {"mul_store_add", "matmul_store_add"}, n \in 1..MaxQueue :
          /\ lists' = Append(lists, FreshBundle(n))
          /\ nextId' = nextId + n
          /\ frame' = [frame EXCEPT ![t] =
                 [NoFrame EXCEPT
                    !.fn = fn,
                    !.key = IF fn = "mul_store_add"
                            THEN mul_store_add_key(tuple_(<<1>>), tuple_(<<1>>))
                            ELSE matmul_store_add_key(tuple_(<<1>>), tuple_(<<1>>)),
                    !.primitives = Len(lists) + 1,
                    !.bundle = FreshBundle(n),
                    !.raced = Racing(t)]]
    /\ pc' = [pc EXCEPT ![t] = "add_test"]
    /\ UNCHANGED <<store, nAdds, arrived, served, last, store0, genVars, regVars, floatVars, astVars, partyVars>>

\* if config_key in store:
AddTest(t) ==
    /\ pc[t] = "add_test"
    /\ pc' = [pc EXCEPT ![t] = IF frame[t].key \in DOMAIN store
                               THEN "add_load" ELSE "add_set"]
    /\ UNCHANGED <<storeVars, frame, store0, genVars, regVars, floatVars, astVars, partyVars>>

\* store[config_key]   (the receiver of .extend)
AddLoad(t) ==
    /\ pc[t] = "add_load"
    /\ frame' = [frame EXCEPT ![t].target = store[frame[t].key]]
    /\ pc' = [pc EXCEPT ![t] = "add_extend"]
    /\ UNCHANGED <<storeVars, store0, genVars, regVars, floatVars, astVars, partyVars>>

\* .extend(primitives)
AddExtend(t) ==
    /\ pc[t] = "add_extend"
    /\ lists' = list_extend(lists, frame[t].target, frame[t].primitives)
    /\ pc' = [pc EXCEPT ![t] = "done"]
    /\ UNCHANGED <<store, nextId, nAdds, arrived, served, last, frame, store0, genVars, regVars, floatVars, astVars, partyVars>>

\* store[config_key] = primitives
AddSet(t) ==
    /\ pc[t] = "add_set"
    /\ store' = [k \in DOMAIN store \cup {frame[t].key} |->
                    IF k = frame[t].key THEN frame[t].primitives ELSE store[k]]
    /\ pc' = [pc EXCEPT ![t] = "done"]
    /\ UNCHANGED <<lists, nextId, nAdds, arrived, served, last, frame, store0, genVars, regVars, floatVars, astVars, partyVars>>

\* A thread calls mul_store_get or matmul_store_get; line 190 / 274 formats the key.
ThreadCallsGet(t) ==
    /\ pc[t] = "start"
    /\ \E fn \in {"mul_store_get", "matmul_store_get"}, remove \in BOOLEAN :
          frame' = [frame EXCEPT ![t] =
                 [NoFrame EXCEPT
                    !.fn = fn,
                    !.key = IF fn = "mul_store_get"
                            THEN mul_store_get_key(tuple_(<<1>>), tuple_(<<1>>))
                            ELSE matmul_store_get_key(tuple_(<<1>>), tuple_(<<1>>)),
                    !.remove = remove,
                    !.raced = Racing(t)]]
    /\ pc' = [pc EXCEPT ![t] = "get_lookup"]
    /\ UNCHANGED <<storeVars, store0, genVars, regVars, floatVars, astVars, partyVars>>

\* Mutant: a get on a missing key waits until an add has created the key.
GetLookupBlocking(t) ==
    /\ pc[t] = "get_lookup"
    /\ frame[t].key \in DOMAIN store
    /\ frame' = [frame EXCEPT ![t].primitives = store[frame[t].key]]
    /\ pc' = [pc EXCEPT ![t] = "get_head"]
    /\ UNCHANGED <<storeVars, store0, genVars, regVars, floatVars, astVars, partyVars>>

\* try: primitives = store[config_key]
\* except KeyError: raise EmptyPrimitiveStore
GetLookup(t) ==
    /\ pc[t] = "get_lookup"
    /\ IF frame[t].key \in DOMAIN store
       THEN /\ frame' = [frame EXCEPT ![t].primitives = store[frame[t].key]]
            /\ pc' = [pc EXCEPT ![t] = "get_head"]
       ELSE /\ frame' = [frame EXCEPT ![t].exc = "EmptyPrimitiveStore"]
            /\ pc' = [pc EXCEPT ![t] = "done"]
    /\ UNCHANGED <<storeVars, store0, genVars, regVars, floatVars, astVars, partyVars>>

\* try: primitive = primitives[0]
\* except Exception: raise EmptyPrimitiveStore
\* if remove: ... ; return primitive
GetHead(t) ==
    /\ pc[t] = "get_head"
    /\ IF Len(lists[frame[t].primitives]) = 0
       THEN /\ frame' = [frame EXCEPT ![t].exc = "EmptyPrimitiveStore"]
            /\ pc' = [pc EXCEPT ![t] = "done"]
       ELSE /\ frame' = [frame EXCEPT
                            ![t].primitive = lists[frame[t].primitives][1],
                            ![t].val = IF frame[t].remove THEN NoValue
                                       ELSE lists[frame[t].primitives][1]]
            /\ pc' = [pc EXCEPT ![t] = IF frame[t].remove THEN "get_del" ELSE "done"]
    /\ UNCHANGED <<storeVars, store0, genVars, regVars, floatVars, astVars, partyVars>>

\* del primitives[0]  (IndexError on an empty list, caught by nobody)
\* return primitive
GetDel(t) ==
    /\ pc[t] = "get_del"
    /\ IF Len(lists[frame[t].primitives]) = 0
       THEN /\ frame' = [frame EXCEPT ![t].exc = "IndexError"]
            /\ lists' = lists
       ELSE /\ frame' = [frame EXCEPT ![t].val = frame[t].primitive]
            /\ lists' = list_del_head(lists, frame[t].primitives)
    /\ pc' = [pc EXCEPT ![t] = "done"]
    /\ UNCHANGED <<store, nextId, nAdds, arrived, served, last, store0, genVars, regVars, floatVars, astVars, partyVars>>

ConcNext ==
    \E t \in Threads :
        \/ ThreadCallsAdd(t)
        \/ AddTest(t)
        \/ AddLoad(t)
        \/ AddExtend(t)
        \/ AddSet(t)
        \/ ThreadCallsGet(t)
        \/ GetLookup(t)
        \/ GetHead(t)
        \/ GetDel(t)

ConcSpec == ConcInit /\ [][ConcNext]_vars

\* The steps of thread t inside a call of lines 160-164 / 190-205 (and of
\* lines 244-248 / 274-289): plain bytecode, no lock, no wait, no I/O.
CallStep(t) ==
    \/ AddTest(t)
    \/ AddLoad(t)
    \/ AddExtend(t)
    \/ AddSet(t)
    \/ GetLookup(t)
    \/ GetHead(t)
    \/ GetDel(t)

\* The interpreter gives every thread that is inside a call its turn; nothing
\* obliges a thread to make a call.
FairConcSpec == ConcSpec /\ \A t \in Threads : WF_vars(CallStep(t))

-----------------------------------------------------------------------------
(* Triple generation: _get_triples *)

\* ShareTensor.compute_min_max_from_ring: the signed bounds of the ring
compute_min_max_from_ring(bits) == <<-(2 ^ (bits - 1)), 2 ^ (bits - 1) - 1>>

min_value == compute_min_max_from_ring(RingBits)[1]
max_value == compute_min_max_from_ring(RingBits)[2]

\* Reduction of an integer into the signed range of the ring.
Wrap(x) == ((x - min_value) % (2 ^ RingBits)) + min_value

Seeds == 0..MaxSeed

\* The pseudo-random share of party i (1-based) derived from the seed.
prz_share(seed, i) == Wrap((seed + 1) * i + seed)

RECURSIVE SumTo(_, _)
SumTo(f, n) == IF n = 0 THEN 0 ELSE f[n] + SumTo(f, n - 1)

\* Mutant: the secret is mixed into the first share as well; the shares still
\* sum to the secret.
get_shares_secret_in_first(secret, nr_parties, seed_shares) ==
    LET rnd == [i \in 1..(nr_parties - 1) |-> prz_share(seed_shares, i)]
    IN  [i \in 1..nr_parties |->
            IF i = 1 /\ nr_parties > 1 THEN Wrap(rnd[1] + secret)
            ELSE IF i < nr_parties THEN rnd[i]
            ELSE Wrap(-SumTo(rnd, nr_parties - 1))]

\* Mutant: the last share is derived from the seed like the others.
get_shares_without_residual(secret, nr_parties, seed_shares) ==
    [i \in 1..nr_parties |-> prz_share(seed_shares, i)]

\* MPCTensor._get_shares_from_local_secret: nr_parties - 1 shares derived
\* from the seed, the last one the residual that makes the sum the secret.
get_shares_from_local_secret(secret, nr_parties, seed_shares) ==
    LET rnd == [i \in 1..(nr_parties - 1) |-> prz_share(seed_shares, i)]
    IN  [i \in 1..nr_parties |->
            IF i < nr_parties THEN rnd[i]
            ELSE Wrap(secret - SumTo(rnd, nr_parties - 1))]

\* Mutant: the combinator adds instead of multiplying.
cmd_add(op_str, a, b) == Wrap(a + b)

\* cmd = getattr(operator, op_str), applied to int32 operands of shape (1,):
\* the product, wrapped as the fixed-width arithmetic wraps it
cmd(op_str, a, b) == Wrap(a * b)

\* Mutant: the draw reaches one past `high`.
integers_past_high(low, high) == low..(high + 1)

\* ttp_generator.integers(low, high, size, endpoint=True, dtype): the values
\* an element of the draw can take
integers(low, high) == low..high

Reverse(s) == [i \in 1..Len(s) |-> s[Len(s) + 1 - i]]

Min(a, b) == IF a < b THEN a ELSE b

\* operator.mul on two arrays: the shapes must broadcast, that is, aligned
\* from the right each pair of dimensions is equal or has a 1.
broadcastable(a_dims, b_dims) ==
    LET ra == Reverse(a_dims)
        rb == Reverse(b_dims)
    IN  \A i \in 1..Min(Len(ra), Len(rb)) : ra[i] = rb[i] \/ ra[i] = 1 \/ rb[i] = 1

\* operator.matmul on two arrays of one or two dimensions: the last dimension
\* of a must equal the first of b (the one before last when b is a matrix).
matmul_applicable(a_dims, b_dims) ==
    /\ Len(a_dims) \in 1..2
    /\ Len(b_dims) \in 1..2
    /\ a_dims[Len(a_dims)] = b_dims[IF Len(b_dims) = 1 THEN 1 ELSE Len(b_dims) - 1]

\* Mutant: the combinator accepts any pair of shapes.
applicable_always(op_str, a_shape, b_shape) == TRUE

\* Line 92 returns a value for these shapes; otherwise it raises.
applicable(op_str, a_shape, b_shape) ==
    IF op_str = "matmul" THEN matmul_applicable(a_shape.dims, b_shape.dims)
    ELSE broadcastable(a_shape.dims, b_shape.dims)

\* Mutant: any party count is accepted.
party_count_unchecked(nr_parties) == FALSE

\* The sharing refuses to split a secret among fewer than two parties.
party_count_error(nr_parties) == nr_parties < 2

\* zip(*xs): as many tuples as the shortest of xs has elements, tuple i
\* holding element i of each of xs in the order of xs
zip(xs) ==
    LET n == IF Len(xs) = 0 THEN 0
             ELSE CHOOSE k \in {Len(xs[j]) : j \in 1..Len(xs)} :
                      \A j \in 1..Len(xs) : k <= Len(xs[j])
    IN  [i \in 1..n |-> [j \in 1..Len(xs) |-> xs[j][i]]]

\* Mutant: the inner zip is forgotten, so the records are transposed as they
\* are: one row per component instead of one row per party.
reshape_without_inner_zip(ts) == zip(ts)

\* list(map(list, zip(*map(lambda x: map(list, zip(*x)), triple_sequential))))
reshape(ts) == zip([j \in 1..Len(ts) |-> zip(ts[j])])

\* Mutant: B is split with a seed of its own.
shares_of_instance_reseeding(op_str, nr_parties, a_rand, b_rand, seed_shares) ==
    <<get_shares_from_local_secret(a_rand, nr_parties, seed_shares),
      get_shares_from_local_secret(b_rand, nr_parties, (seed_shares + 1) % (MaxSeed + 1)),
      get_shares_from_local_secret(cmd(op_str, a_rand, b_rand), nr_parties, seed_shares)>>

\* Lines 63-96: the three share lists of one instance.
shares_of_instance(op_str, nr_parties, a_rand, b_rand, seed_shares) ==
    <<get_shares_from_local_secret(a_rand, nr_parties, seed_shares),
      get_shares_from_local_secret(b_rand, nr_parties, seed_shares),
      get_shares_from_local_secret(cmd(op_str, a_rand, b_rand), nr_parties, seed_shares)>>

\* What a generation call gives its caller: an exception, or the value
\* returned together with the locals the claims speak about.
GenRaised(op_str, e) ==
    [exc |-> e, op_str |-> op_str, c_val |-> 0, triple_sequential |-> <<>>,
     triple |-> <<>>]

\* Mutant: the bundles come out rotated by one party.
get_triples_rotated(op_str, nr_parties, a_shape, b_shape, a_rand, b_rand, seed_shares) ==
    LET ts == <<shares_of_instance(op_str, nr_parties, a_rand, b_rand, seed_shares)>>
        r == reshape(ts)
    IN  [exc |-> "none", op_str |-> op_str, c_val |-> cmd(op_str, a_rand, b_rand),
         triple_sequential |-> ts,
         triple |-> [i \in 1..Len(r) |-> r[(i % Len(r)) + 1]]]

\* _get_triples(op_str, nr_parties, a_shape, b_shape) as a function of what it
\* draws: a_rand, b_rand and seed_shares.  The sharing of A at line 72 is the
\* first step that can raise, the combinator at line 92 the second; neither
\* exception is caught.  The values are those of operands of shape (1,).
get_triples(op_str, nr_parties, a_shape, b_shape, a_rand, b_rand, seed_shares) ==
    IF party_count_error(nr_parties)
    THEN GenRaised(op_str, "InvalidPartyCountError")
    ELSE IF ~applicable(op_str, a_shape, b_shape)
    THEN GenRaised(op_str, "ShapeMismatchError")
    ELSE LET ts == <<shares_of_instance(op_str, nr_parties, a_rand, b_rand, seed_shares)>>
         IN  [exc |-> "none", op_str |-> op_str, c_val |-> cmd(op_str, a_rand, b_rand),
              triple_sequential |-> ts, triple |-> reshape(ts)]

\* Lines 128-142
get_triples_mul(nr_parties, a_shape, b_shape, a_rand, b_rand, seed_shares) ==
    get_triples("mul", nr_parties, a_shape, b_shape, a_rand, b_rand, seed_shares)

\* Lines 211-225
get_triples_matmul(nr_parties, a_shape, b_shape, a_rand, b_rand, seed_shares) ==
    get_triples("matmul", nr_parties, a_shape, b_shape, a_rand, b_rand, seed_shares)

\* The call of a registered generator by its name.
call_generator(fn, nr_parties, a_shape, b_shape, a_rand, b_rand, seed_shares) ==
    IF fn = "get_triples_mul"
    THEN get_triples_mul(nr_parties, a_shape, b_shape, a_rand, b_rand, seed_shares)
    ELSE get_triples_matmul(nr_parties, a_shape, b_shape, a_rand, b_rand, seed_shares)

\* Mutant: an operation that is not registered is served by the generator of
\* beaver_mul.
generate_primitives_defaulting(reg, operation, nr_parties, a_shape, b_shape, a_rand, b_rand, seed_shares) ==
    call_generator(IF operation \in DOMAIN reg.generator
                   THEN reg.generator[operation] ELSE "get_triples_mul",
                   nr_parties, a_shape, b_shape, a_rand, b_rand, seed_shares)

\* Generation through the registry: the operation is looked up first, and a
\* name that is not registered raises before anything is drawn.
generate_primitives(reg, operation, nr_parties, a_shape, b_shape, a_rand, b_rand, seed_shares) ==
    IF operation \notin DOMAIN reg.generator
    THEN GenRaised("", "UnknownOperationError")
    ELSE call_generator(reg.generator[operation],
                        nr_parties, a_shape, b_shape, a_rand, b_rand, seed_shares)

\* The operand shapes the calls are made with: (1,) and (1,), which both
\* combinators accept; (2,) and (3,), which neither accepts; and for matmul
\* (1, 2) and (3, 1), whose inner dimensions differ.
Shape11 == <<tuple_(<<1>>), tuple_(<<1>>)>>
MulShapes == { Shape11, <<tuple_(<<2>>), tuple_(<<3>>)>> }
MatmulShapes == MulShapes \cup { <<tuple_(<<1, 2>>), tuple_(<<3, 1>>)>> }

\* The operation names generation is asked for through the registry.
OperationNames == {"beaver_mul", "beaver_matmul", "beaver_conv2d"}

NoGen ==
    [pc |-> "idle", operation |-> "", op_str |-> "", nr_parties |-> 0,
     a_shape |-> tuple_(<<>>), b_shape |-> tuple_(<<>>), a_rand |-> 0, b_rand |-> 0,
     c_val |-> 0, seed_shares |-> 0, exc |-> "none"]

\* The record of a finished call: its arguments, its draws and its outcome r.
GenCalled(operation, nr_parties, s, a_rand, b_rand, seed_shares, r) ==
    [pc |-> IF r.exc = "none" THEN "returned" ELSE "raised",
     operation |-> operation, op_str |-> r.op_str, nr_parties |-> nr_parties,
     a_shape |-> s[1], b_shape |-> s[2], a_rand |-> a_rand, b_rand |-> b_rand,
     c_val |-> r.c_val, seed_shares |-> seed_shares, exc |-> r.exc]

GenInit ==
    /\ triple_sequential = <<>>
    /\ triple = <<>>
    /\ gen = NoGen
    /\ StoreInit
    /\ ThreadsIdle
    /\ RegistryLoaded
    /\ NoFloats
    /\ AstIdle
    /\ PartiesIdle

\* get_triples_mul(nr_parties, a_shape, b_shape)
GetTriplesMul ==
    /\ gen.pc = "idle"
    /\ \E n \in 0..MaxParties, s \in MulShapes, seed \in Seeds,
          a \in integers(min_value, max_value), b \in integers(min_value, max_value) :
          LET r == get_triples_mul(n, s[1], s[2], a, b, seed)
          IN  /\ triple_sequential' = r.triple_sequential
              /\ triple' = r.triple
              /\ gen' = GenCalled("", n, s, a, b, seed, r)
    /\ UNCHANGED <<storeVars, threadVars, regVars, floatVars, astVars, partyVars>>

\* get_triples_matmul(nr_parties, a_shape, b_shape)
GetTriplesMatmul ==
    /\ gen.pc = "idle"
    /\ \E n \in 0..MaxParties, s \in MatmulShapes, seed \in Seeds,
          a \in integers(min_value, max_value), b \in integers(min_value, max_value) :
          LET r == get_triples_matmul(n, s[1], s[2], a, b, seed)
          IN  /\ triple_sequential' = r.triple_sequential
              /\ triple' = r.triple
              /\ gen' = GenCalled("", n, s, a, b, seed, r)
    /\ UNCHANGED <<storeVars, threadVars, regVars, floatVars, astVars, partyVars>>

\* Generation of the primitives of `operation` through the registry.
GeneratePrimitives ==
    /\ gen.pc = "idle"
    /\ \E operation \in OperationNames, n \in 0..MaxParties, seed \in Seeds,
          a \in integers(min_value, max_value), b \in integers(min_value, max_value) :
          \E s \in (IF operation = "beaver_mul" THEN MulShapes ELSE MatmulShapes) :
              LET r == generate_primitives(registry, operation, n, s[1], s[2], a, b, seed)
              IN  /\ triple_sequential' = r.triple_sequential
                  /\ triple' = r.triple
                  /\ gen' = GenCalled(operation, n, s, a, b, seed, r)
    /\ UNCHANGED <<storeVars, threadVars, regVars, floatVars, astVars, partyVars>>

GenNext == GetTriplesMul \/ GetTriplesMatmul \/ GeneratePrimitives

GenSpec == GenInit /\ [][GenNext]_vars

\* The reshape on its own, for any number of instances: the instances are
\* share lists made as lines 63-96 make them, with one seed for the call.
ReshapeInit ==
    /\ \E m \in 1..MaxInstances, n \in 2..MaxParties, seed \in Seeds :
          \E operands \in [1..m -> (0..MaxOperand) \X (0..MaxOperand)] :
              /\ triple_sequential =
                    [j \in 1..m |->
                        shares_of_instance("mul", n, operands[j][1], operands[j][2], seed)]
              /\ gen = [NoGen EXCEPT !.pc = "reshape", !.op_str = "mul",
                                     !.nr_parties = n, !.seed_shares = seed]
    /\ triple = <<>>
    /\ StoreInit
    /\ ThreadsIdle
    /\ RegistryLoaded
    /\ NoFloats
    /\ AstIdle
    /\ PartiesIdle

\* Lines 118-122
Reshape ==
    /\ gen.pc = "reshape"
    /\ triple' = reshape(triple_sequential)
    /\ gen' = [gen EXCEPT !.pc = "returned"]
    /\ UNCHANGED <<triple_sequential, storeVars, threadVars, regVars, floatVars, astVars, partyVars>>

ReshapeNext == Reshape

ReshapeSpec == ReshapeInit /\ [][ReshapeNext]_vars

-----------------------------------------------------------------------------
(* The registry on its own: registrations in any order, under the names of    *)
(* beaver.py, of the functions beaver.py defines.                             *)

RegisteredNames == {"beaver_mul", "beaver_matmul"}

Generators == {"get_triples_mul", "get_triples_matmul"}
StoreAdders == {"mul_store_add", "matmul_store_add"}
StoreGetters == {"mul_store_get", "matmul_store_get"}

RegInit ==
    /\ registry = EmptyRegistry
    /\ regLog = <<>>
    /\ StoreInit
    /\ ThreadsIdle
    /\ GenIdle
    /\ NoFloats
    /\ AstIdle
    /\ PartiesIdle

\* @register_primitive_generator(name) applied to fn
RegisterPrimitiveGenerator ==
    /\ Len(regLog) < MaxRegistrations
    /\ \E name \in RegisteredNames, fn \in Generators :
          /\ registry' = register(registry, "generator", name, fn)
          /\ regLog' = Append(regLog, Registration("generator", name, fn))
    /\ UNCHANGED <<storeVars, threadVars, genVars, floatVars, astVars, partyVars>>

\* @register_primitive_store_add(name) applied to fn
RegisterPrimitiveStoreAdd ==
    /\ Len(regLog) < MaxRegistrations
    /\ \E name \in RegisteredNames, fn \in StoreAdders :
          /\ registry' = register(registry, "store_add", name, fn)
          /\ regLog' = Append(regLog, Registration("store_add", name, fn))
    /\ UNCHANGED <<storeVars, threadVars, genVars, floatVars, astVars, partyVars>>

\* @register_primitive_store_get(name) applied to fn
RegisterPrimitiveStoreGet ==
    /\ Len(regLog) < MaxRegistrations
    /\ \E name \in RegisteredNames, fn \in StoreGetters :
          /\ registry' = register(registry, "store_get", name, fn)
          /\ regLog' = Append(regLog, Registration("store_get", name, fn))
    /\ UNCHANGED <<storeVars, threadVars, genVars, floatVars, astVars, partyVars>>

RegNext ==
    \/ RegisterPrimitiveGenerator
    \/ RegisterPrimitiveStoreAdd
    \/ RegisterPrimitiveStoreGet

RegSpec == RegInit /\ [][RegNext]_vars

-----------------------------------------------------------------------------
(* Operations on Floats: the module creates test_float and other, and each   *)
(* call takes a Float made so far as its operand.                             *)

IsFloat(i) == floats[i].type = "Float"

FloatInit ==
    /\ floats = <<Constructed(1), Constructed(2)>>
    /\ nextUid = 3
    /\ fcall = NoFloatCall
    /\ StoreInit
    /\ ThreadsIdle
    /\ GenIdle
    /\ RegistryLoaded
    /\ AstIdle
    /\ PartiesIdle

\* An operation with one result
FloatCall ==
    /\ Len(floats) < MaxFloats
    /\ \E op \in FloatResultOps \cup OtherResultOps,
          self \in DOMAIN floats, other \in DOMAIN floats :
          /\ IsFloat(self) /\ IsFloat(other)
          /\ floats' = float_op(floats, nextUid, op, self)
          /\ fcall' = [op |-> op, self |-> self, other |-> other]
    /\ nextUid' = nextUid + 1
    /\ UNCHANGED <<storeVars, threadVars, genVars, regVars, astVars, partyVars>>

\* An operation with two results
FloatCallPair ==
    /\ Len(floats) + 1 < MaxFloats
    /\ \E op \in FloatPairOps \cup OtherPairOps,
          self \in DOMAIN floats, other \in DOMAIN floats :
          /\ IsFloat(self) /\ IsFloat(other)
          /\ floats' = float_pair_op(floats, nextUid, op, self)
          /\ fcall' = [op |-> op, self |-> self, other |-> other]
    /\ nextUid' = nextUid + 2
    /\ UNCHANGED <<storeVars, threadVars, genVars, regVars, astVars, partyVars>>

\* An in-place operator
FloatCallInPlace ==
    /\ Len(floats) < MaxFloats
    /\ \E op \in InPlaceOps, self \in DOMAIN floats, other \in DOMAIN floats :
          /\ IsFloat(self) /\ IsFloat(other)
          /\ floats' = float_inplace_op(floats, nextUid, op, self)
          /\ fcall' = [op |-> op, self |-> self, other |-> other]
    /\ UNCHANGED <<nextUid, storeVars, threadVars, genVars, regVars, astVars, partyVars>>

FloatNext == FloatCall \/ FloatCallPair \/ FloatCallInPlace

FloatSpec == FloatInit /\ [][FloatNext]_vars

-----------------------------------------------------------------------------
(* syft.ast.get_parent *)

\* The names the components of a path are drawn from.
StepNames == {"syft", "lib", "Int", "m"}

NoNode == 0

\* A small AST, the one of the module's docstring: a namespace holding the
\* module syft, its submodule lib, the class Int of lib and a method of Int.
\* Each node has the `attrs` dict of syft.ast.attribute.Attribute.
AstNodes ==
    << [kind |-> "Module", attrs |-> ("syft" :> 2)],
       [kind |-> "Module", attrs |-> ("lib" :> 3)],
       [kind |-> "Module", attrs |-> ("Int" :> 4)],
       [kind |-> "Class", attrs |-> ("m" :> 5)],
       [kind |-> "Callable", attrs |-> <<>>] >>

\* A dotted path is a string; here the sequence of its components and of the
\* dots between them.
dotted(components) ==
    [i \in 1..(2 * Len(components) - 1) |->
        IF i % 2 = 1 THEN components[(i + 1) \div 2] ELSE "."]

\* path.split("."): the components between the dots
RECURSIVE split(_)
split(path) ==
    IF path = <<>> THEN << <<>> >>
    ELSE LET rest == split(Tail(path))
         IN  IF Head(path) = "." THEN << <<>> >> \o rest
             ELSE << <<Head(path)>> \o Head(rest) >> \o Tail(rest)

\* A component as split returns it: the string between two dots.
component(tokens) == IF tokens = <<>> THEN "" ELSE tokens[1]

\* for step in steps: if step in parent.attrs: parent = parent.attrs[step]
RECURSIVE walk(_, _)
walk(parent, steps) ==
    IF steps = <<>> THEN parent
    ELSE LET step == component(Head(steps))
         IN  IF step \in DOMAIN AstNodes[parent].attrs
             THEN walk(AstNodes[parent].attrs[step], Tail(steps))
             ELSE walk(parent, Tail(steps))

\* isinstance(parent, (module.Module, klass.Class))
is_module_or_class(node) == AstNodes[node].kind \in {"Module", "Class"}

get_parent(path, root) ==
    LET steps == split(path)
        parent == walk(root, SubSeq(steps, 1, Len(steps) - 1))
    IN  IF ~is_module_or_class(parent)
        THEN [exc |-> "ValueError", val |-> NoNode]
        ELSE [exc |-> "none", val |-> parent]

\* The paths get_parent is called with: 1..MaxPath components.
Paths == UNION { {dotted(c) : c \in [1..n -> StepNames]} : n \in 1..MaxPath }

AstInit ==
    /\ ast \in { [pc |-> "called", path |-> path, root |-> root,
                  exc |-> "none", val |-> NoNode] :
                    path \in Paths, root \in DOMAIN AstNodes }
    /\ StoreInit
    /\ ThreadsIdle
    /\ GenIdle
    /\ RegistryLoaded
    /\ NoFloats
    /\ PartiesIdle

GetParent ==
    /\ ast.pc = "called"
    /\ LET r == get_parent(ast.path, ast.root)
       IN  ast' = [ast EXCEPT !.pc = "returned", !.exc = r.exc, !.val = r.val]
    /\ UNCHANGED <<storeVars, threadVars, genVars, regVars, floatVars, partyVars>>

AstNext == GetParent

AstSpec == AstInit /\ [][AstNext]_vars

-----------------------------------------------------------------------------
(* The parties of one computation.  A trusted third party calls the          *)
(* generator; every party adds its bundle of each call to its own store and  *)
(* consumes with removing gets.  No two parties share a store.               *)

\* The numbers of parties of a computation.
PartyCounts == {2, MaxParties}

\* The draws of the generator in a computation: (a_rand, b_rand) among the
\* extremes of the ring, seed_shares among the extremes of the seeds.
PartyDraws == {<<min_value, max_value>>, <<max_value, min_value>>, <<max_value, max_value>>}
PartySeeds == {0, MaxSeed}

\* Every party i adds bundle i (a new list object) to its own store, in the
\* order of the parties: stores[i] and the heap after parties i..n have added.
RECURSIVE add_bundles(_, _, _, _)
add_bundles(stores, hp, bundles, i) ==
    IF i > Len(stores) THEN [stores |-> stores, lists |-> hp]
    ELSE LET r == mul_store_add(stores[i], Append(hp, bundles[i]), Len(hp) + 1,
                                Shape11[1], Shape11[2])
         IN  add_bundles([stores EXCEPT ![i] = r.store], r.lists, bundles, i + 1)

PartyInit ==
    /\ \E n \in PartyCounts :
          party = [calls |-> <<>>, stores |-> [i \in 1..n |-> <<>>], lists |-> <<>>,
                   taken |-> [i \in 1..n |-> <<>>]]
    /\ StoreInit
    /\ ThreadsIdle
    /\ GenIdle
    /\ RegistryLoaded
    /\ NoFloats
    /\ AstIdle

\* One generation call, get_triples_mul(nr_parties, (1,), (1,)), and the
\* store_add of every party for its bundle of the call.  The stores are
\* disjoint, so the adds of different parties commute and are made here in one
\* step; each party adds the bundles in the order of the calls.
Distribute ==
    /\ Len(party.calls) < MaxInstances
    /\ \E d \in PartyDraws, seed \in PartySeeds :
          LET a == d[1]
              b == d[2]
              r == get_triples_mul(Len(party.stores), Shape11[1], Shape11[2], a, b, seed)
              added == add_bundles(party.stores, party.lists, r.triple, 1)
          IN  /\ r.exc = "none"
              /\ party' = [party EXCEPT
                               !.calls = Append(@, [a_rand |-> a, b_rand |-> b,
                                                    c_val |-> r.c_val]),
                               !.stores = added.stores,
                               !.lists = added.lists]
    /\ UNCHANGED <<storeVars, threadVars, genVars, regVars, floatVars, astVars>>

\* Party i consumes: mul_store_get(store, (1,), (1,), remove=True).
PartyGets(i) ==
    /\ LET r == mul_store_get(party.stores[i], party.lists, Shape11[1], Shape11[2], TRUE)
       IN  party' = [party EXCEPT
                        !.stores[i] = r.store,
                        !.lists = r.lists,
                        !.taken[i] = IF r.exc = "none" THEN Append(@, r.val) ELSE @]
    /\ UNCHANGED <<storeVars, threadVars, genVars, regVars, floatVars, astVars>>

PartyNext ==
    \/ Distribute
    \/ \E i \in DOMAIN party.stores : PartyGets(i)

PartySpec == PartyInit /\ [][PartyNext]_vars

-----------------------------------------------------------------------------
(* Claims about the store used by one caller at a time *)

\* Only key K has been used by a store_add so far.
OnlyKey(K) == DOMAIN store \subseteq {K}

\* C1 (Store FIFO): while all store_add calls went to one key K, the
\* primitives appended under K are exactly those already returned by removing
\* gets followed by those still queued, in arrival order; a removing get
\* returns the next primitive in arrival order, and a get raises
\* EmptyPrimitiveStore only when every appended primitive has been returned.
C1_StoreFifo ==
    \A K \in Keys :
        OnlyKey(K) =>
            /\ arrived[K] = served[K] \o Queue(K)
            /\ (last.fn = "get" /\ last.key = K) =>
                  /\ last.exc \in {"none", "EmptyPrimitiveStore"}
                  /\ last.exc = "EmptyPrimitiveStore" => served[K] = arrived[K]
                  /\ (last.exc = "none" /\ last.remove) =>
                        last.val = arrived[K][Len(served[K])]
                  /\ (last.exc = "none" /\ ~last.remove) =>
                        last.val = arrived[K][Len(served[K]) + 1]

\* Three primitives arrived under one key in two bundles, all three were
\* returned in order, and the next get raised EmptyPrimitiveStore.
C1_Witness ==
    /\ OnlyKey(MulKey11)
    /\ nAdds = 2
    /\ arrived[MulKey11] = <<1, 2, 3>>
    /\ served[MulKey11] = <<1, 2, 3>>
    /\ last.fn = "get" /\ last.key = MulKey11
    /\ last.exc = "EmptyPrimitiveStore"

\* C2 (exactly-once consumption, one caller): for every key the queue length
\* is the number of primitives added under the key minus the number of
\* successful removing gets on it.
C2_QueueLengthIsAddedMinusRemoved ==
    \A k \in Keys : Len(Queue(k)) = Len(arrived[k]) - Len(served[k])

\* C5: a get on a key that is absent, or present with an empty queue, raises
\* EmptyPrimitiveStore and changes neither the dict, nor any list, nor the
\* generator's state, whatever `remove` is.
C5_MissRaisesAndChangesNothing ==
    [][ (last'.fn = "get" /\ Queue(last'.key) = <<>>) =>
            /\ last'.exc = "EmptyPrimitiveStore"
            /\ store' = store
            /\ lists' = lists
            /\ UNCHANGED genVars ]_vars

\* A get raised EmptyPrimitiveStore on a key that is present with an empty
\* queue, after the key's primitives had been consumed.
C5_Witness ==
    /\ last.fn = "get"
    /\ last.exc = "EmptyPrimitiveStore"
    /\ last.key \in DOMAIN store
    /\ Queue(last.key) = <<>>
    /\ served[last.key] # <<>>

\* C6 (non-removal mode): a get with remove = false on a non-empty queue
\* returns the head and leaves the dict and every list unchanged; and the get
\* on the same key that follows it, removing or not, returns the same value.
C6_PeekLeavesStoreUnchanged ==
    [][ /\ (last'.fn = "get" /\ ~last'.remove /\ Queue(last'.key) # <<>>) =>
              /\ last'.exc = "none"
              /\ last'.val = Head(Queue(last'.key))
              /\ store' = store
              /\ lists' = lists
        /\ (/\ last.fn = "get" /\ ~last.remove /\ last.exc = "none"
            /\ last'.fn = "get" /\ last'.key = last.key) =>
              /\ last'.exc = "none"
              /\ last'.val = last.val ]_vars

\* A removing get returned the value the non-removing get before it had shown,
\* and the queue still holds a later primitive.
C6_Witness ==
    /\ last.fn = "get" /\ last.remove /\ last.exc = "none"
    /\ served[last.key] = <<last.val>>
    /\ Len(arrived[last.key]) = 2
    /\ Queue(last.key) = <<arrived[last.key][2]>>

\* C7 (key isolation): a store_add or store_get under one key leaves the
\* queue of every other key unchanged.
C7_OtherQueuesUnchanged ==
    [][ \A k \in Keys : k # last'.key => Queue(k)' = Queue(k) ]_vars

\* All the ways to write the shapes of s with tuples and lists.
Containers(s) ==
    { <<[kind |-> ka, dims |-> s[1].dims], [kind |-> kb, dims |-> s[2].dims]>> :
        ka \in {"tuple", "list"}, kb \in {"tuple", "list"} }

\* C8 (key canonicalization): primitives added under shapes s are returned
\* by the get called with the same shapes in any container type.
C8_SameKeyForEquivalentShapes ==
    \A s \in ShapeArgs : \A t \in Containers(s) :
        /\ Queue(mul_store_add_key(s[1], s[2])) # <<>> =>
              mul_store_get(store, lists, t[1], t[2], FALSE).val
                  = Head(Queue(mul_store_add_key(s[1], s[2])))
        /\ Queue(matmul_store_add_key(s[1], s[2])) # <<>> =>
              matmul_store_get(store, lists, t[1], t[2], FALSE).val
                  = Head(Queue(matmul_store_add_key(s[1], s[2])))

\* C26: the store owns its queues: no two keys of the store ever name the
\* same queue object, and no call modifies a list object a caller passed to
\* store_add (the caller still holds every list it passed).
C26_StoreOwnsItsQueues ==
    /\ [](\A k1 \in DOMAIN store, k2 \in DOMAIN store :
             k1 # k2 => store[k1] # store[k2])
    /\ [][\A L \in DOMAIN lists : lists'[L] = lists[L]]_vars

-----------------------------------------------------------------------------
(* Claims about the store shared by two threads *)

IsAdd(t) == frame[t].fn \in {"mul_store_add", "matmul_store_add"}
IsGet(t) == frame[t].fn \in {"mul_store_get", "matmul_store_get"}
AllDone == \A t \in Threads : pc[t] = "done"
Succeeded(t) == frame[t].exc = "none"

\* Number of occurrences of x in seq.
Count(seq, x) == Cardinality({i \in DOMAIN seq : seq[i] = x})

\* Both threads ran a removing get on the same key.
TwoRemovingGets ==
    /\ AllDone
    /\ \A t \in Threads : IsGet(t) /\ frame[t].remove
    /\ frame["t1"].key = frame["t2"].key

\* C3: two concurrent removing gets on one key never return the same entry
\* and never remove more entries than they return: each returns an entry or
\* raises EmptyPrimitiveStore, two successful gets return distinct entries,
\* both succeed when two or more entries were queued, and the queue shrinks by
\* exactly the number of successful gets.
C3_ConcurrentGetsTakeDistinctHeads ==
    TwoRemovingGets =>
        LET K == frame["t1"].key
            ok == {t \in Threads : Succeeded(t)}
        IN  /\ \A t \in Threads : frame[t].exc \in {"none", "EmptyPrimitiveStore"}
            /\ ok = Threads => frame["t1"].val # frame["t2"].val
            /\ Len(store0[K]) >= 2 => ok = Threads
            /\ Len(Queue(K)) = Len(store0[K]) - Cardinality(ok)

\* One thread ran a store_add and the other a store_get on the same key.
AddRacesGet(a, g) ==
    /\ AllDone
    /\ IsAdd(a) /\ IsGet(g)
    /\ frame[a].key = frame[g].key

\* C4: after a store_add and a store_get on the same key have both completed,
\* in any interleaving, the entries still queued together with the entry the
\* get removed are, as a multiset, the entries queued before together with
\* the added bundle; the get returned an entry or raised EmptyPrimitiveStore.
C4_AddRacingGetConservesEntries ==
    \A a \in Threads, g \in Threads :
        AddRacesGet(a, g) =>
            LET K == frame[a].key
                taken(x) == IF frame[g].remove /\ Succeeded(g) /\ frame[g].val = x
                            THEN 1 ELSE 0
            IN  /\ frame[g].exc \in {"none", "EmptyPrimitiveStore"}
                /\ Succeeded(a)
                /\ \A x \in 1..nextId :
                      Count(Queue(K), x) + taken(x)
                          = Count(store0[K], x) + Count(frame[a].bundle, x)

\* The add was called while the get was inside its call; the get removed the
\* first primitive of the bundle the add brought, on a key that had an empty
\* queue, and the rest of the bundle is queued.
C4_Witness ==
    \E a \in Threads, g \in Threads :
        /\ AddRacesGet(a, g)
        /\ frame[a].raced
        /\ frame[a].key \in DOMAIN store
        /\ store0[frame[a].key] = <<>>
        /\ Len(frame[a].bundle) = 2
        /\ frame[g].remove /\ Succeeded(g)
        /\ frame[g].val = frame[a].bundle[1]
        /\ Queue(frame[a].key) = <<frame[a].bundle[2]>>

InCall(t) == pc[t] \notin {"start", "done"}

\* C23: every store_add and store_get call terminates without waiting on any
\* other thread: a thread inside a call reaches the end of the call whatever
\* the other thread does or fails to do; the step of a get that finds its key
\* missing, or its queue empty, ends the call with EmptyPrimitiveStore; and
\* every thread inside a call always has a step it can take.
C23_CallsTerminateWithoutWaiting ==
    /\ \A t \in Threads : InCall(t) ~> (pc[t] = "done")
    /\ [](\A t \in Threads : InCall(t) => ENABLED CallStep(t))
    /\ [][\A t \in Threads :
            /\ (pc[t] = "get_lookup" /\ pc'[t] # "get_lookup"
                    /\ frame[t].key \notin DOMAIN store)
                 => (pc'[t] = "done" /\ frame'[t].exc = "EmptyPrimitiveStore")
            /\ (pc[t] = "get_head" /\ pc'[t] # "get_head"
                    /\ lists[frame[t].primitives] = <<>>)
                 => (pc'[t] = "done" /\ frame'[t].exc = "EmptyPrimitiveStore")]_vars

\* A get on a missing key has completed with EmptyPrimitiveStore while the
\* other thread has made no call at all.
C23_Witness ==
    \E g \in Threads, u \in Threads :
        /\ g # u
        /\ pc[u] = "start"
        /\ pc[g] = "done" /\ IsGet(g)
        /\ frame[g].key \notin DOMAIN store
        /\ frame[g].exc = "EmptyPrimitiveStore"

\* Both threads ran a store_add on the same key.
TwoAdds ==
    /\ AllDone
    /\ \A t \in Threads : IsAdd(t)
    /\ frame["t1"].key = frame["t2"].key

\* seq without the elements outside of set, order kept.
Restrict(seq, set) == SelectSeq(seq, LAMBDA x : x \in set)

Elements(seq) == {seq[i] : i \in DOMAIN seq}

\* C27: two concurrent store_add calls on the same key never lose an entry:
\* after both have completed the queue of the key holds every primitive of
\* both bundles exactly once, each bundle in its original order.
C27_ConcurrentAddsLoseNothing ==
    TwoAdds =>
        LET K == frame["t1"].key
        IN  /\ K \in DOMAIN store
            /\ \A t \in Threads :
                  /\ \A x \in Elements(frame[t].bundle) : Count(Queue(K), x) = 1
                  /\ Restrict(Queue(K), Elements(frame[t].bundle)) = frame[t].bundle

-----------------------------------------------------------------------------
(* Claims about _get_triples *)

\* C9 (reshape fidelity): for m instances and n parties the reshape returns
\* n bundles, bundle i has length m, and entry j of bundle i is [a, b, c],
\* in that order, with a, b and c the shares of party i in instance j.
C9_ReshapeFidelity ==
    gen.pc = "returned" =>
        LET m == Len(triple_sequential)
            n == gen.nr_parties
        IN  /\ Len(triple) = n
            /\ \A i \in 1..n :
                  /\ Len(triple[i]) = m
                  /\ \A j \in 1..m :
                        triple[i][j] = <<triple_sequential[j][1][i],
                                         triple_sequential[j][2][i],
                                         triple_sequential[j][3][i]>>

\* Two instances for three parties were reshaped, and the entries of the
\* first party for the two instances differ, as do the a- and b-shares of the
\* last party.
C9_Witness ==
    /\ gen.pc = "returned"
    /\ Len(triple_sequential) = 2
    /\ gen.nr_parties = 3
    /\ Len(triple) = 3
    /\ triple[3][1] # triple[3][2]
    /\ triple[3][2][1] # triple[3][2][2]
    /\ triple[1][1] # triple[2][1]

\* C10 (party routing): a generation for n parties returns n bundles, and the
\* entry of bundle i holds the shares at index i of the n-way sharings of A,
\* of B and of C.
C10_PartyRouting ==
    gen.pc = "returned" =>
        LET n == gen.nr_parties
            a_shares == get_shares_from_local_secret(gen.a_rand, n, gen.seed_shares)
            b_shares == get_shares_from_local_secret(gen.b_rand, n, gen.seed_shares)
            c_shares == get_shares_from_local_secret(
                            cmd(gen.op_str, gen.a_rand, gen.b_rand), n, gen.seed_shares)
        IN  /\ Len(triple) = n
            /\ \A i \in 1..n :
                  /\ Len(triple[i]) = 1
                  /\ triple[i][1][1] = a_shares[i]
                  /\ triple[i][1][2] = b_shares[i]
                  /\ triple[i][1][3] = c_shares[i]

\* A generation for three parties returned three bundles whose c-shares are
\* pairwise different, so a share routed to the wrong party would show.
C10_Witness ==
    /\ gen.pc = "returned"
    /\ gen.nr_parties = 3
    /\ Len(triple) = 3
    /\ triple[1][1][3] # triple[2][1][3]
    /\ triple[2][1][3] # triple[3][1][3]
    /\ triple[1][1][3] # triple[3][1][3]

\* Component k (1 = a, 2 = b, 3 = c) of the entries the parties hold, summed
\* over the parties and reduced into the ring.
BundleSum(k) ==
    Wrap(SumTo([i \in 1..Len(triple) |-> triple[i][1][k]], Len(triple)))

\* C11 (triple correctness): in every generation that returns, mul or matmul,
\* the plaintext C is the product of A and B reduced modulo the ring, and the
\* a-shares, the b-shares and the c-shares placed in the bundles sum, modulo
\* the ring, to A, to B and to C.
C11_TripleCorrectness ==
    gen.pc = "returned" =>
        /\ gen.c_val = Wrap(gen.a_rand * gen.b_rand)
        /\ BundleSum(1) = gen.a_rand
        /\ BundleSum(2) = gen.b_rand
        /\ BundleSum(3) = gen.c_val

\* A matmul generation for three parties returned a triple whose product
\* left the signed range, so that C is the product only modulo the ring.
C11_Witness ==
    /\ gen.pc = "returned"
    /\ gen.op_str = "matmul"
    /\ gen.nr_parties = 3
    /\ gen.a_rand * gen.b_rand > max_value
    /\ gen.c_val # gen.a_rand * gen.b_rand
    /\ BundleSum(3) = gen.c_val

\* C12 (reconstruction round trip): for every secret of the ring and every
\* party count n >= 2 the sharing returns exactly n shares, and their sum
\* modulo the ring is the secret.
C12_ReconstructionRoundTrip ==
    gen.pc = "returned" =>
        \A k \in 1..3 :
            LET secret == <<gen.a_rand, gen.b_rand, gen.c_val>>[k]
                shares == triple_sequential[1][k]
            IN  /\ gen.nr_parties >= 2
                /\ Len(shares) = gen.nr_parties
                /\ Wrap(SumTo(shares, Len(shares))) = secret

\* A secret was split among three parties, the last share is not the secret
\* itself, and the plain sum of the shares is not the secret: only the sum
\* reduced into the ring gives it back.
C12_Witness ==
    /\ gen.pc = "returned"
    /\ gen.nr_parties = 3
    /\ Len(triple_sequential[1][1]) = 3
    /\ triple_sequential[1][1][3] # gen.a_rand
    /\ SumTo(triple_sequential[1][1], 3) # gen.a_rand
    /\ Wrap(SumTo(triple_sequential[1][1], 3)) = gen.a_rand

\* C13 (ring bounds): the bounds of a ring of RingBits bits are
\* -2^(RingBits-1) and 2^(RingBits-1)-1, and the operands A and B of every
\* generation call lie within them, both ends included.
C13_RingBounds ==
    /\ compute_min_max_from_ring(RingBits)
          = <<-(2 ^ (RingBits - 1)), 2 ^ (RingBits - 1) - 1>>
    /\ gen.pc \in {"returned", "raised"} =>
          /\ -(2 ^ (RingBits - 1)) <= gen.a_rand
          /\ gen.a_rand <= 2 ^ (RingBits - 1) - 1
          /\ -(2 ^ (RingBits - 1)) <= gen.b_rand
          /\ gen.b_rand <= 2 ^ (RingBits - 1) - 1

\* A generation returned with A at the upper end and B at the lower end of
\* the range.
C13_Witness ==
    /\ gen.pc = "returned"
    /\ gen.a_rand = 2 ^ (RingBits - 1) - 1
    /\ gen.b_rand = -(2 ^ (RingBits - 1))

Inapplicable(op_str, a_dims, b_dims) ==
    IF op_str = "matmul" THEN a_dims[Len(a_dims)] # b_dims[1]
    ELSE /\ Len(a_dims) = Len(b_dims)
         /\ \E i \in 1..Len(a_dims) :
               a_dims[i] # b_dims[i] /\ a_dims[i] # 1 /\ b_dims[i] # 1

\* A generation call that reached _get_triples has finished.
GenerationEnded == gen.pc \in {"returned", "raised"} /\ gen.op_str # ""

C16_TooFewPartiesRaises ==
    (GenerationEnded /\ gen.nr_parties < 2) =>
        /\ gen.pc = "raised"
        /\ gen.exc = "InvalidPartyCountError"
        /\ triple_sequential = <<>>
        /\ triple = <<>>

\* A generation for one party raised InvalidPartyCountError, although its
\* shapes were ones the combinator accepts.
C16_Witness ==
    /\ gen.pc = "raised"
    /\ gen.op_str = "mul"
    /\ gen.nr_parties = 1
    /\ <<gen.a_shape, gen.b_shape>> = Shape11
    /\ gen.exc = "InvalidPartyCountError"
    /\ triple = <<>>

\* The secrets of the call: A, B and C.
Secrets == <<gen.a_rand, gen.b_rand, gen.c_val>>

\* C21 (one seed per generation): the call draws one seed, and the share
\* lists of A, of B and of C are each the sharing of the secret under that
\* seed.
C21_OneSeedForAllSplits ==
    gen.pc = "returned" =>
        /\ gen.seed_shares \in Seeds
        /\ \A k \in 1..3 :
              triple_sequential[1][k]
                  = get_shares_from_local_secret(Secrets[k], gen.nr_parties, gen.seed_shares)

\* A generation for three parties returned, and under any other seed each
\* of the three share lists would have been a different one.
C21_Witness ==
    /\ gen.pc = "returned"
    /\ gen.nr_parties = 3
    /\ Seeds \ {gen.seed_shares} # {}
    /\ \A seed \in Seeds \ {gen.seed_shares} : \A k \in 1..3 :
          triple_sequential[1][k]
              # get_shares_from_local_secret(Secrets[k], gen.nr_parties, seed)

\* C22 (seed determinism): for the seed and the party count of the call,
\* the sharing of any secret of the ring has the same first nr_parties - 1
\* shares as the sharing of A, and a last share that differs from that of A
\* exactly when the secret differs from A.
C22_SeedDeterminism ==
    gen.pc = "returned" =>
        LET n == gen.nr_parties
            a_shares == triple_sequential[1][1]
        IN  \A secret \in min_value..max_value :
                LET shares == get_shares_from_local_secret(secret, n, gen.seed_shares)
                IN  /\ \A i \in 1..(n - 1) : shares[i] = a_shares[i]
                    /\ (shares[n] = a_shares[n]) = (secret = gen.a_rand)

\* A and B differ, were split among three parties under one seed, and their
\* share lists agree in the first two shares and differ in the third.
C22_Witness ==
    /\ gen.pc = "returned"
    /\ gen.nr_parties = 3
    /\ gen.a_rand # gen.b_rand
    /\ triple_sequential[1][1][1] = triple_sequential[1][2][1]
    /\ triple_sequential[1][1][2] = triple_sequential[1][2][2]
    /\ triple_sequential[1][1][3] # triple_sequential[1][2][3]

\* C29 (A and B masked independently): for a_shape = b_shape no party can
\* tell A - B from its own bundle: for every party there are operands with
\* another difference, split under some seed, that give the party the same
\* a-share and b-share.
C29_NoBundleDeterminesDifference ==
    (gen.pc = "returned" /\ gen.a_shape = gen.b_shape) =>
        \A i \in 1..gen.nr_parties :
            \E a \in min_value..max_value, b \in min_value..max_value, seed \in Seeds :
                /\ Wrap(a - b) # Wrap(gen.a_rand - gen.b_rand)
                /\ get_shares_from_local_secret(a, gen.nr_parties, seed)[i] = triple[i][1][1]
                /\ get_shares_from_local_secret(b, gen.nr_parties, seed)[i] = triple[i][1][2]

-----------------------------------------------------------------------------
(* Claims about the registry *)

\* No capability was registered twice under one name.
DistinctNames(log) ==
    \A i, j \in 1..Len(log) :
        i # j => <<log[i].capability, log[i].name>> # <<log[j].capability, log[j].name>>

\* The registrations of log made in the order p.
Reordered(log, p) == [i \in 1..Len(log) |-> log[p[i]]]

\* C17 (operation registry): registrations under distinct names give the
\* same mapping in whatever order they are made; no registration removes an
\* entry; and a registration sets the function of its own capability and
\* name, adds no other entry and leaves every other entry as it was.
C17_RegistryAdditiveOrderIndependent ==
    /\ (regLog # <<>> /\ DistinctNames(regLog)) =>
          \A p \in Permutations(1..Len(regLog)) :
              Replay(Reordered(regLog, p)) = registry
    /\ \A i \in 1..Len(regLog) :
          regLog[i].name \in DOMAIN registry[regLog[i].capability]
    /\ regLog # <<>> =>
          LET e == regLog[Len(regLog)]
              before == Replay(SubSeq(regLog, 1, Len(regLog) - 1))
          IN  /\ registry[e.capability][e.name] = e.fn
              /\ \A c \in Capabilities :
                    /\ DOMAIN registry[c]
                          = DOMAIN before[c] \cup (IF c = e.capability THEN {e.name} ELSE {})
                    /\ \A n \in DOMAIN before[c] :
                          <<c, n>> # <<e.capability, e.name>> =>
                              registry[c][n] = before[c][n]

\* A generator was registered under one name, another under a second name,
\* and then a different generator under the first name again: the first name
\* has the new generator and the second name kept its own.
C17_Witness ==
    /\ Len(regLog) = 3
    /\ \A i \in 1..3 : regLog[i].capability = "generator"
    /\ regLog[1].name = regLog[3].name
    /\ regLog[2].name # regLog[1].name
    /\ regLog[1].fn # regLog[3].fn
    /\ regLog[2].fn = regLog[1].fn
    /\ registry.generator[regLog[1].name] = regLog[3].fn
    /\ registry.generator[regLog[2].name] = regLog[2].fn

-----------------------------------------------------------------------------
(* Claims about the ids of Floats *)

RECURSIVE Origin(_)
Origin(i) == IF floats[i].kind = "inplace" THEN Origin(floats[i].from) ELSE i

-----------------------------------------------------------------------------
(* Claims about the order of store_add and store_get *)

\* C20 (add before fetch): every primitive a successful get returns for a
\* key was among the primitives that an earlier store_add was given for that
\* key.
C20_ReturnedWasAddedUnderKey ==
    (last.fn = "get" /\ last.exc = "none") =>
        \E i \in 1..Len(arrived[last.key]) : arrived[last.key][i] = last.val

\* Key K is in the store with an empty queue.
Emptied(K) == K \in DOMAIN store /\ Queue(K) = <<>>

\* C28 (refill after exhaustion): once removing gets have emptied the queue
\* of key K, the key stays in the store with an empty queue until a store_add
\* on K, and a get on K raises EmptyPrimitiveStore; a store_add on K then
\* makes the queue of K the primitives just added, in their order, none of
\* them consumed under K before, and a successful get on K returns the head
\* of that queue.
C28_RefillAfterExhaustion ==
    [][\A K \in Keys :
          /\ Emptied(K) =>
                /\ ~(last'.fn = "add" /\ last'.key = K) => Emptied(K)'
                /\ (last'.fn = "get" /\ last'.key = K) =>
                      last'.exc = "EmptyPrimitiveStore"
                /\ (last'.fn = "add" /\ last'.key = K) =>
                      /\ K \in DOMAIN store'
                      /\ lists'[store'[K]]
                            = SubSeq(arrived'[K], Len(arrived[K]) + 1, Len(arrived'[K]))
                      /\ \A i \in 1..Len(lists'[store'[K]]) :
                            \A j \in 1..Len(served[K]) :
                                lists'[store'[K]][i] # served[K][j]
          /\ (last'.fn = "get" /\ last'.key = K /\ last'.exc = "none") =>
                last'.val = Head(Queue(K))]_vars

-----------------------------------------------------------------------------
(* Claims about the store functions of the two operations *)

\* The key with the prefix of the other operation: beaver_mul_... for
\* beaver_matmul_... and back.
OtherPrefix ==
    [k \in Keys |->
        CHOOSE k2 \in Keys :
            \E s \in ShapeArgs :
                \/ k = mul_store_add_key(s[1], s[2]) /\ k2 = matmul_store_add_key(s[1], s[2])
                \/ k = matmul_store_add_key(s[1], s[2]) /\ k2 = mul_store_add_key(s[1], s[2])
                \/ k = mul_store_get_key(s[1], s[2]) /\ k2 = matmul_store_get_key(s[1], s[2])
                \/ k = matmul_store_get_key(s[1], s[2]) /\ k2 = mul_store_get_key(s[1], s[2])]

\* The dict st with every key given the prefix of the other operation.
Renamed(st) == [k \in {OtherPrefix[k0] : k0 \in DOMAIN st} |-> st[OtherPrefix[k]]]

\* r2 is r1 up to the key prefix: same error, same returned value, same
\* lists, and the dict of r2 is the renamed dict of r1.
SameUpToPrefix(r1, r2) ==
    /\ r2.exc = r1.exc
    /\ r2.val = r1.val
    /\ r2.lists = r1.lists
    /\ r2.store = Renamed(r1.store)

\* C30: the store functions of beaver_mul and of beaver_matmul are the same
\* queue operations up to the key prefix: in every reachable store, each
\* call of mul_store_add / mul_store_get and the same call of
\* matmul_store_add / matmul_store_get on the store with the prefixes
\* exchanged give the same returned value or error, the same lists and
\* stores that are equal up to the prefix (and the other way round).  Step
\* by step, this makes any sequence of calls on initially empty stores agree.
C30_MulAndMatmulStoresAgree ==
    LET renamed == Renamed(store)
    IN  /\ Renamed(renamed) = store
        /\ \A s \in ShapeArgs :
              /\ \A remove \in BOOLEAN :
                    /\ SameUpToPrefix(mul_store_get(store, lists, s[1], s[2], remove),
                                      matmul_store_get(renamed, lists, s[1], s[2], remove))
                    /\ SameUpToPrefix(matmul_store_get(store, lists, s[1], s[2], remove),
                                      mul_store_get(renamed, lists, s[1], s[2], remove))
              /\ \A primitives \in DOMAIN lists :
                    /\ SameUpToPrefix(mul_store_add(store, lists, primitives, s[1], s[2]),
                                      matmul_store_add(renamed, lists, primitives, s[1], s[2]))
                    /\ SameUpToPrefix(matmul_store_add(store, lists, primitives, s[1], s[2]),
                                      mul_store_add(renamed, lists, primitives, s[1], s[2]))

\* A store filled through mul_store_add only, with two primitives queued
\* under one key and a second list at hand: a removing mul_store_get returns
\* the head, and so does matmul_store_get on the renamed store, whose only
\* key has the matmul prefix; a further add extends the queue.
C30_Witness ==
    /\ DOMAIN store = {MulKey11}
    /\ DOMAIN Renamed(store) = {MatmulKey11}
    /\ Len(Queue(MulKey11)) = 2
    /\ Len(lists) = 2
    /\ lists[2] # <<>> /\ store[MulKey11] = 1
    /\ matmul_store_get(Renamed(store), lists, tuple_(<<1>>), tuple_(<<1>>), TRUE).val
          = Head(Queue(MulKey11))
    /\ Len(matmul_store_add(Renamed(store), lists, 2, tuple_(<<1>>), tuple_(<<1>>)).lists[1]) = 3

-----------------------------------------------------------------------------
(* Claims about the parties of one computation *)

\* The k-th primitive every party retrieved, component c (1: a, 2: b, 3: c).
RetrievedShares(k, c) == [i \in DOMAIN party.taken |-> party.taken[i][k][c]]

\* Every party has retrieved k primitives at least.
AllRetrieved(k) == \A i \in DOMAIN party.taken : Len(party.taken[i]) >= k

\* C25 (cross-party consistency): when every party adds its bundle of each
\* generation call to its own store in call order and consumes with removing
\* gets only, the k-th primitives the parties retrieve under the key belong
\* to the k-th generated instance: their a-, b- and c-shares summed over the
\* parties modulo the ring are A, B and C of that instance, and C is A
\* combined with B.
C25_CrossPartyConsistency ==
    \A k \in 1..Len(party.calls) :
        AllRetrieved(k) =>
            LET call == party.calls[k]
                n == Len(party.taken)
            IN  /\ Wrap(SumTo(RetrievedShares(k, 1), n)) = call.a_rand
                /\ Wrap(SumTo(RetrievedShares(k, 2), n)) = call.b_rand
                /\ Wrap(SumTo(RetrievedShares(k, 3), n)) = call.c_val
                /\ call.c_val = cmd("mul", call.a_rand, call.b_rand)

\* Two instances with different A and C were distributed before any party
\* consumed its first, and every one of MaxParties parties has retrieved both.
C25_Witness ==
    /\ Len(party.taken) = MaxParties
    /\ Len(party.calls) = 2
    /\ party.calls[1].a_rand # party.calls[2].a_rand
    /\ party.calls[1].c_val # party.calls[2].c_val
    /\ AllRetrieved(2)
    /\ \A i \in DOMAIN party.taken : party.taken[i][1] # party.taken[i][2]

-----------------------------------------------------------------------------
(* Claims about get_parent *)

\* The node reached from `node` by following every step: no node when a step
\* is not an attribute of the node reached so far.
RECURSIVE Follow(_, _)
Follow(node, steps) ==
    IF steps = <<>> \/ node = NoNode THEN node
    ELSE IF component(Head(steps)) \in DOMAIN AstNodes[node].attrs
         THEN Follow(AstNodes[node].attrs[component(Head(steps))], Tail(steps))
         ELSE NoNode

\* The node every component of the path but the last leads to from the root.
TrueParent == Follow(ast.root, SubSeq(split(ast.path), 1, Len(split(ast.path)) - 1))

\* C24: get_parent(path, root) returns the node reached by following every
\* component of the path except the last from root, raises ValueError when
\* that node is not a Module or a Class, and, when an intermediate component
\* does not exist under its parent, returns no node at all.
C24_GetParentFollowsEveryStep ==
    ast.pc = "returned" =>
        /\ (TrueParent # NoNode /\ is_module_or_class(TrueParent)) =>
              (ast.exc = "none" /\ ast.val = TrueParent)
        /\ (TrueParent # NoNode /\ ~is_module_or_class(TrueParent)) =>
              ast.exc = "ValueError"
        /\ TrueParent = NoNode => ast.exc # "none"

====
